---- MODULE Spec2Model ----
(***************************************************************************)
(* A model of ardite-core: the schema engine (schema/schema.rs), the       *)
(* MongoDB driver's translation of conditions, queries and sort rules      *)
(* (driver/mongodb.rs), the Driver trait (driver/driver.rs) and the error  *)
(* type (error.rs).                                                        *)
(*                                                                         *)
(* A Rust String is modelled as the sequence of its characters, so that    *)
(* format!, join(".") and Regex::is_match are computed, not assumed.       *)
(***************************************************************************)
EXTENDS Integers, Sequences, FiniteSets, TLC

VARIABLES schema, call, backend

vars == <<schema, call, backend>>

----------------------------------------------------------------------------
(* Option<T> and Result<T, Error>                                          *)

None == [opt |-> "None"]

Some(x) == [opt |-> "Some", val |-> x]

Ok(x) == [res |-> "Ok", val |-> x]

Err(e) == [res |-> "Err", error |-> e]

Unit == [unit |-> TRUE]

is_err(r) == r.res = "Err"

is_ok(r) == r.res = "Ok"

----------------------------------------------------------------------------
(* Strings                                                                 *)

Digits == {"0", "1", "2", "3", "4", "5", "6", "7", "8", "9"}

\* the decimal digits in the order of their values
Digits_in_order == <<"0","1","2","3","4","5","6","7","8","9">>

\* s occurs in t as a contiguous substring (str::contains, Regex of a literal)
Contains(t, s) ==
  \E i \in 0..(Len(t) - Len(s)) : SubSeq(t, i + 1, i + Len(s)) = s

Quote == <<"\"">>

\* INTEGER_RE = ^\d+$ : one or more decimal digits, anchored at both ends
RECURSIVE digits_from(_, _)
digits_from(key, i) ==
  IF i > Len(key) THEN TRUE
  ELSE IF key[i] \in Digits THEN digits_from(key, i + 1)
  ELSE FALSE

\* the pattern without its anchors: \d+ matches anywhere in the key
INTEGER_RE_unanchored(key) == \E i \in 1..Len(key) : key[i] \in Digits

INTEGER_RE_is_match(key) == Len(key) >= 1 /\ digits_from(key, 1)

----------------------------------------------------------------------------
(* error.rs                                                                *)

BadRequest == "BadRequest"

NotFound == "NotFound"

Internal == "Internal"

\* Error::invalid(message, hint)
Error_invalid(message, hint) ==
  [code |-> BadRequest, message |-> message, hint |-> Some(hint)]

\* Error::internal(message)
Error_internal(message) ==
  [code |-> Internal, message |-> message, hint |-> None]

MsgDeeply ==
  <<"C","a","n","n","o","t"," ","d","e","e","p","l","y"," ","q","u","e","r","y"," ","a"," ","p","r","i","m","i","t","i","v","e"," ","v","a","l","u","e",".">>

\* the grave accent U+0060, which a TLA+ string literal cannot hold
Backtick == "U+0060"

HintDeeply ==
  <<"T","r","y"," ","n","o","t"," ","q","u","e","r","y","i","n","g"," ","s","p","e","c","i","f","i","c"," ","p","r","o","p","e","r","t","i","e","s"," ","o","f"," ","a"," ","p","r","i","m","i","t","i","v","e"," ","l","i","k","e"," ",Backtick,"n","u","l","l",Backtick," ","o","r"," ",Backtick,"b","o","o","l","e","a","n",Backtick,".">>

\* format!("Cannot query non-integer \"{}\" array property.", key)
MsgNonInteger(key) ==
  <<"C","a","n","n","o","t"," ","q","u","e","r","y"," ","n","o","n","-","i","n","t","e","g","e","r"," ","\"">>
  \o key \o
  <<"\""," ","a","r","r","a","y"," ","p","r","o","p","e","r","t","y",".">>

HintNonInteger ==
  <<"O","n","l","y"," ","q","u","e","r","y"," ","i","n","t","e","g","e","r"," ","a","r","r","a","y"," ","k","e","y","s"," ","l","i","k","e"," ","1",","," ","2",","," ","a","n","d"," ","3",".">>

\* format!("Cannot query object property \"{}\".", key)
MsgObjectProperty(key) ==
  <<"C","a","n","n","o","t"," ","q","u","e","r","y"," ","o","b","j","e","c","t"," ","p","r","o","p","e","r","t","y"," ","\"">>
  \o key \o
  <<"\"",".">>

HintObjectProperty ==
  <<"Q","u","e","r","y"," ","a","n"," ","o","b","j","e","c","t"," ","p","r","o","p","e","r","t","y"," ","t","h","a","t"," ","i","s"," ","d","e","f","i","n","e","d"," ","i","n"," ","t","h","e"," ","s","c","h","e","m","a",".">>

----------------------------------------------------------------------------
(* LinearMap<K, V>: a vector of entries with unique keys, iterated in      *)
(* insertion order.                                                        *)

Entry(k, v) == [key |-> k, val |-> v]

LinearMap_contains(m, k) == \E i \in 1..Len(m) : m[i].key = k

LinearMap_get(m, k) ==
  IF LinearMap_contains(m, k)
  THEN Some(m[CHOOSE i \in 1..Len(m) : m[i].key = k].val)
  ELSE None

\* insert that leaves the value a key already has
LinearMap_insert_keep_first(m, k, v) ==
  IF LinearMap_contains(m, k) THEN m ELSE Append(m, Entry(k, v))

LinearMap_insert(m, k, v) ==
  IF LinearMap_contains(m, k)
  THEN [i \in 1..Len(m) |-> IF m[i].key = k THEN Entry(k, v) ELSE m[i]]
  ELSE Append(m, Entry(k, v))

UniqueKeys(m) == \A i, j \in 1..Len(m) : m[i].key = m[j].key => i = j

----------------------------------------------------------------------------
(* Query: All | Keys(LinearMap<Key, Query>)                                *)

Query_All == [q |-> "All"]

Query_Keys(keys) == [q |-> "Keys", keys |-> keys]

----------------------------------------------------------------------------
(* schema/schema.rs: the schema variants                                   *)

SchemaNone == [kind |-> "None"]

SchemaNull == [kind |-> "Null"]

SchemaBoolean == [kind |-> "Boolean"]

\* SchemaNumber::new()
SchemaNumber ==
  [kind |-> "Number", multiple_of |-> None, minimum |-> None,
   exclusive_minimum |-> FALSE, maximum |-> None, exclusive_maximum |-> FALSE]

\* SchemaString::new()
SchemaString ==
  [kind |-> "String", min_length |-> None, max_length |-> None, pattern |-> None]

\* SchemaEnum::new(values)
SchemaEnum(values) == [kind |-> "Enum", values |-> values]

\* SchemaArray { items }
SchemaArray(items) == [kind |-> "Array", items |-> items]

\* SchemaObject { properties, required, additional_properties }
SchemaObject(properties, additional_properties) ==
  [kind |-> "Object", properties |-> properties, required |-> <<>>,
   additional_properties |-> additional_properties]

\* the types that implement SchemaPrimitive
PrimitiveKinds == {"Null", "Boolean", "Number", "String", "Enum"}

----------------------------------------------------------------------------
(* schema/schema.rs: validate_query.                                       *)
(*                                                                         *)
(* validate_run(self, query, pointer) is validate_query instrumented: its  *)
(* result is the Result the code returns, and visited lists, in order, the *)
(* pointer of every key the closure of `.map(..)` was run on (pointer is   *)
(* where self sits in the outermost query).                                *)

Returned(result, visited) == [result |-> result, visited |-> visited]

RECURSIVE validate_run(_, _, _)

\* the closure of SchemaArray::validate_query
array_key(self, query_properties, key, pointer) ==
  IF INTEGER_RE_is_match(key)
  THEN IF self.items.opt = "Some"
       THEN validate_run(self.items.val,
                         LinearMap_get(query_properties, key).val,
                         pointer \o <<key>>)
       ELSE Returned(Ok(Unit), <<>>)
  ELSE Returned(Err(Error_invalid(MsgNonInteger(key), HintNonInteger)), <<>>)

\* object_key with the additional_properties branch left out
object_key_no_additional(self, query_properties, key, pointer) ==
  IF LinearMap_contains(self.properties, key)
  THEN validate_run(LinearMap_get(self.properties, key).val,
                    LinearMap_get(query_properties, key).val,
                    pointer \o <<key>>)
  ELSE Returned(Err(Error_invalid(MsgObjectProperty(key), HintObjectProperty)), <<>>)

\* the closure of SchemaObject::validate_query
object_key(self, query_properties, key, pointer) ==
  IF LinearMap_contains(self.properties, key)
  THEN validate_run(LinearMap_get(self.properties, key).val,
                    LinearMap_get(query_properties, key).val,
                    pointer \o <<key>>)
  ELSE IF self.additional_properties
  THEN Returned(Ok(Unit), <<>>)
  ELSE Returned(Err(Error_invalid(MsgObjectProperty(key), HintObjectProperty)), <<>>)

key_closure(self, query_properties, key, pointer) ==
  IF self.kind = "Array"
  THEN array_key(self, query_properties, key, pointer)
  ELSE object_key(self, query_properties, key, pointer)

\* find_is_err over results collected eagerly: the closure runs on every key
RECURSIVE find_is_err_eager(_, _, _, _)
find_is_err_eager(self, query_properties, i, pointer) ==
  IF i > Len(query_properties)
  THEN [found |-> None, visited |-> <<>>]
  ELSE LET key == query_properties[i].key
           r == key_closure(self, query_properties, key, pointer)
           here == <<pointer \o <<key>>>> \o r.visited
           rest == find_is_err_eager(self, query_properties, i + 1, pointer)
       IN [found |-> IF is_err(r.result) THEN Some(r.result) ELSE rest.found,
           visited |-> here \o rest.visited]

\* query_properties.keys().map(closure).find(|r| r.is_err()), from entry i on:
\* the iterator is lazy, the closure runs on a key only when find asks for it
RECURSIVE find_is_err(_, _, _, _)
find_is_err(self, query_properties, i, pointer) ==
  IF i > Len(query_properties)
  THEN [found |-> None, visited |-> <<>>]
  ELSE LET key == query_properties[i].key
           r == key_closure(self, query_properties, key, pointer)
           here == <<pointer \o <<key>>>> \o r.visited
       IN IF is_err(r.result)
          THEN [found |-> Some(r.result), visited |-> here]
          ELSE LET rest == find_is_err(self, query_properties, i + 1, pointer)
               IN [found |-> rest.found, visited |-> here \o rest.visited]

\* primitive_validate_query taking Keys of the empty map for All
primitive_accepts_empty_keys(self, query) ==
  IF query.q = "All" \/ query.keys = <<>>
  THEN Ok(Unit)
  ELSE Err(Error_invalid(MsgDeeply, HintDeeply))

\* primitive_validate_query that validates nothing, as SchemaNone does
primitive_validates_nothing(self, query) == Ok(Unit)

\* impl Schema for T: SchemaPrimitive
primitive_validate_query(self, query) ==
  IF query.q = "All"
  THEN Ok(Unit)
  ELSE Err(Error_invalid(MsgDeeply, HintDeeply))

\* SchemaNone treated as one more primitive
none_as_primitive(self, query) ==
  IF query.q = "All"
  THEN Ok(Unit)
  ELSE Err(Error_invalid(MsgDeeply, HintDeeply))

\* impl Schema for SchemaNone
none_validate_query(self, query) == Ok(Unit)

\* keyed_validate_run with Query::All checked as a query of no keys would be,
\* but refused on a schema that has nothing to return
keyed_validate_run_all_needs_children(self, query, pointer) ==
  IF query.q = "All"
  THEN IF self.kind = "Array" /\ self.items.opt = "None"
       THEN Returned(Err(Error_invalid(MsgDeeply, HintDeeply)), <<>>)
       ELSE Returned(Ok(Unit), <<>>)
  ELSE LET err_key == find_is_err(self, query.keys, 1, pointer)
       IN IF err_key.found.opt = "None"
          THEN Returned(Ok(Unit), err_key.visited)
          ELSE Returned(err_key.found.val, err_key.visited)

\* SchemaArray::validate_query and SchemaObject::validate_query
keyed_validate_run(self, query, pointer) ==
  IF query.q = "All"
  THEN Returned(Ok(Unit), <<>>)
  ELSE LET err_key == find_is_err(self, query.keys, 1, pointer)
       IN IF err_key.found.opt = "None"
          THEN Returned(Ok(Unit), err_key.visited)
          ELSE Returned(err_key.found.val, err_key.visited)

\* dynamic dispatch on the trait object
validate_run(self, query, pointer) ==
  IF self.kind = "None" THEN Returned(none_validate_query(self, query), <<>>)
  ELSE IF self.kind \in PrimitiveKinds
  THEN Returned(primitive_validate_query(self, query), <<>>)
  ELSE keyed_validate_run(self, query, pointer)

\* Schema::validate_query
validate_query(self, query) == validate_run(self, query, <<>>).result

\* the keys validate_query ran its closures on, in order
validated_keys(self, query) == validate_run(self, query, <<>>).visited

----------------------------------------------------------------------------
(* schema/schema.rs: get                                                   *)

RECURSIVE schema_get(_, _)

\* get of a primitive that has itself at every pointer
primitive_get_anywhere(self, pointer) == Some(self)

\* impl Schema for T: SchemaPrimitive, get
primitive_get(self, pointer) ==
  IF pointer = <<>> THEN Some(self) ELSE None

\* SchemaNone::get
none_get(self, pointer) ==
  IF pointer = <<>> THEN Some(self) ELSE None

\* SchemaArray::get that looks at the items only under the index "0"
array_get_first_only(self, pointer) ==
  IF pointer = <<>> THEN Some(self)
  ELSE IF Head(pointer) = <<"0">>
  THEN IF self.items # None
       THEN schema_get(self.items.val, Tail(pointer))
       ELSE None
  ELSE None

\* SchemaArray::get
array_get(self, pointer) ==
  IF pointer = <<>> THEN Some(self)
  ELSE IF INTEGER_RE_is_match(Head(pointer))
  THEN IF self.items # None
       THEN schema_get(self.items.val, Tail(pointer))
       ELSE None
  ELSE None

\* SchemaObject::get that has SchemaNone at the keys additional properties
\* allow
object_get_additional(self, pointer) ==
  IF pointer = <<>> THEN Some(self)
  ELSE LET found == LinearMap_get(self.properties, Head(pointer))
       IN IF found # None
          THEN schema_get(found.val, Tail(pointer))
          ELSE IF self.additional_properties
          THEN schema_get(SchemaNone, Tail(pointer))
          ELSE None

\* SchemaObject::get that stops at the property of the first key and drops
\* the rest of the pointer
object_get_first_key_only(self, pointer) ==
  IF pointer = <<>> THEN Some(self)
  ELSE LET found == LinearMap_get(self.properties, Head(pointer))
       IN IF found # None
          THEN Some(found.val)
          ELSE None

\* SchemaObject::get
object_get(self, pointer) ==
  IF pointer = <<>> THEN Some(self)
  ELSE LET found == LinearMap_get(self.properties, Head(pointer))
       IN IF found # None
          THEN schema_get(found.val, Tail(pointer))
          ELSE None

\* Schema::get, dispatched on the trait object
schema_get(self, pointer) ==
  IF self.kind = "None" THEN none_get(self, pointer)
  ELSE IF self.kind \in PrimitiveKinds THEN primitive_get(self, pointer)
  ELSE IF self.kind = "Array" THEN array_get(self, pointer)
  ELSE object_get(self, pointer)

\* SchemaArray::set_items, set_boxed_items
set_items(self, items) == [self EXCEPT !.items = Some(items)]

\* SchemaObject::add_property, add_boxed_property
add_property(self, key, property_schema) ==
  [self EXCEPT !.properties = LinearMap_insert(self.properties, key, property_schema)]

----------------------------------------------------------------------------
(* Value, and the Bson and Document of the bson crate.                     *)

Value_Null == [v |-> "Null"]

Value_Boolean(x) == [v |-> "Boolean", b |-> x]

Value_I64(x) == [v |-> "I64", i |-> x]

Value_String(x) == [v |-> "String", s |-> x]

Value_Array(x) == [v |-> "Array", array |-> x]

\* Value::Object(LinearMap<Key, Value>)
Value_Object(x) == [v |-> "Object", object |-> x]

Bson_Null == [b |-> "Null"]

Bson_Boolean(x) == [b |-> "Boolean", bool |-> x]

Bson_I32(x) == [b |-> "I32", i32 |-> x]

Bson_I64(x) == [b |-> "I64", i64 |-> x]

Bson_String(x) == [b |-> "String", str |-> x]

Bson_Array(x) == [b |-> "Array", array |-> x]

\* Bson::Document(Document): the entries of the ordered document, in order
Bson_Document(x) == [b |-> "Document", doc |-> x]

Document_new == <<>>

Document_contains_key(document, key) ==
  \E i \in 1..Len(document) : document[i].key = key

\* Document::insert (an ordered document over a linked hash map): a new key
\* is appended; a key that is already there takes the new value and moves to
\* the end, so a document never holds a key twice
Document_insert(document, key, value) ==
  Append(SelectSeq(document, LAMBDA e : e.key # key), Entry(key, value))

\* a call that never returns: the recursion has no base case, the stack
\* overflows and the process aborts (or, the call compiled to a jump, it
\* loops for ever)
Diverges == [diverges |-> TRUE]

\* impl Into<Bson> for Value
RECURSIVE value_into_bson(_)
value_into_bson(self) ==
  CASE self.v = "Null" -> Bson_Null
    [] self.v = "Boolean" -> Bson_Boolean(self.b)
    [] self.v = "I64" -> Bson_I64(self.i)
    [] self.v = "String" -> Bson_String(self.s)
    \* Value::Object(object) => Value::Object(object).into(): the same call
    [] self.v = "Object" -> Diverges
    [] self.v = "Array" ->
         LET items == [i \in 1..Len(self.array) |-> value_into_bson(self.array[i])]
         IN IF \E i \in 1..Len(items) : items[i] = Diverges
            THEN Diverges
            ELSE Bson_Array(items)

----------------------------------------------------------------------------
(* error.rs: Code::to_u16, Code::reason, Display for Code, Error::to_value *)

Forbidden == "Forbidden"

MethodNotAllowed == "MethodNotAllowed"

NotAcceptable == "NotAcceptable"

Conflict == "Conflict"

BadRange == "BadRange"

NotImplemented == "NotImplemented"

\* enum Code
Codes ==
  {BadRequest, Forbidden, NotFound, MethodNotAllowed, NotAcceptable, Conflict,
   BadRange, Internal, NotImplemented}

\* to_u16 that gives BadRange the integer of NotAcceptable
Code_to_u16_range_as_406(self) ==
  CASE self = BadRequest -> 400
    [] self = Forbidden -> 403
    [] self = NotFound -> 404
    [] self = MethodNotAllowed -> 405
    [] self = NotAcceptable -> 406
    [] self = Conflict -> 409
    [] self = BadRange -> 406
    [] self = Internal -> 500
    [] self = NotImplemented -> 501

\* Code::to_u16
Code_to_u16(self) ==
  CASE self = BadRequest -> 400
    [] self = Forbidden -> 403
    [] self = NotFound -> 404
    [] self = MethodNotAllowed -> 405
    [] self = NotAcceptable -> 406
    [] self = Conflict -> 409
    [] self = BadRange -> 416
    [] self = Internal -> 500
    [] self = NotImplemented -> 501

\* Code::reason
Code_reason(self) ==
  CASE self = BadRequest -> <<"B","a","d"," ","R","e","q","u","e","s","t">>
    [] self = Forbidden -> <<"F","o","r","b","i","d","d","e","n">>
    [] self = NotFound -> <<"N","o","t"," ","F","o","u","n","d">>
    [] self = MethodNotAllowed -> <<"M","e","t","h","o","d"," ","N","o","t"," ","A","l","l","o","w","e","d">>
    [] self = NotAcceptable -> <<"N","o","t"," ","A","c","c","e","p","t","a","b","l","e">>
    [] self = Conflict -> <<"C","o","n","f","l","i","c","t">>
    [] self = BadRange -> <<"R","a","n","g","e"," ","N","o","t"," ","S","a","t","i","s","f","i","a","b","l","e">>
    [] self = Internal -> <<"I","n","t","e","r","n","a","l"," ","E","r","r","o","r">>
    [] self = NotImplemented -> <<"N","o","t"," ","I","m","p","l","e","m","e","n","t","e","d">>

\* the decimal digits of n, as write!("{}", n) prints an unsigned integer
RECURSIVE u16_to_string(_)
u16_to_string(n) ==
  LET digit == Digits_in_order[(n % 10) + 1]
  IN IF n < 10 THEN <<digit>> ELSE u16_to_string(n \div 10) \o <<digit>>

\* impl Display for Code: write!(fmt, "{} {}", self.to_u16(), self.reason())
Code_fmt(self) == u16_to_string(Code_to_u16(self)) \o <<" ">> \o Code_reason(self)

\* Error::new(code, message)
Error_new(code, message) == [code |-> code, message |-> message, hint |-> None]

\* Error::set_hint
Error_set_hint(self, hint) == [self EXCEPT !.hint = Some(hint)]

StrError == <<"e","r","r","o","r">>

StrCode == <<"c","o","d","e">>

StrMessage == <<"m","e","s","s","a","g","e">>

StrHint == <<"h","i","n","t">>

\* to_value that writes the hint of every error, the empty string when it
\* has none
Error_to_value_always_hint(self) ==
  LET with_error == LinearMap_insert(<<>>, StrError, Value_Boolean(TRUE))
      with_code == LinearMap_insert(with_error, StrCode, Value_I64(Code_to_u16(self.code)))
      with_message == LinearMap_insert(with_code, StrMessage, Value_String(self.message))
  IN Value_Object(LinearMap_insert(with_message, StrHint,
       Value_String(IF self.hint # None THEN self.hint.val ELSE <<>>)))

\* Error::to_value
Error_to_value(self) ==
  LET with_error == LinearMap_insert(<<>>, StrError, Value_Boolean(TRUE))
      with_code == LinearMap_insert(with_error, StrCode, Value_I64(Code_to_u16(self.code)))
      with_message == LinearMap_insert(with_code, StrMessage, Value_String(self.message))
      object == IF self.hint # None
                THEN LinearMap_insert(with_message, StrHint, Value_String(self.hint.val))
                ELSE with_message
  IN Value_Object(object)

----------------------------------------------------------------------------
(* Condition, SortRule, Range                                              *)

Condition_True == [c |-> "True"]

Condition_False == [c |-> "False"]

Condition_Not(cond) == [c |-> "Not", cond |-> cond]

Condition_And(conds) == [c |-> "And", conds |-> conds]

Condition_Or(conds) == [c |-> "Or", conds |-> conds]

Condition_Equal(value) == [c |-> "Equal", value |-> value]

Condition_Keys(keys) == [c |-> "Keys", keys |-> keys]

\* SortRule::new(property, descending)
SortRule(property, descending) == [property |-> property, descending |-> descending]

\* Range::new(offset, limit)
Range(offset, limit) == [offset |-> offset, limit |-> limit]

----------------------------------------------------------------------------
(* driver/mongodb.rs: condition_to_filter, sort_rules_to_sort,             *)
(* query_to_projection                                                     *)

\* [String]::join(sep)
RECURSIVE join(_, _)
join(pointer, sep) ==
  IF pointer = <<>> THEN <<>>
  ELSE IF Len(pointer) = 1 THEN pointer[1]
  ELSE pointer[1] \o sep \o join(Tail(pointer), sep)

Dot == <<".">>

StrWhere == <<"$","w","h","e","r","e">>

StrTrue == <<"t","r","u","e">>

StrFalse == <<"f","a","l","s","e">>

StrNot == <<"$","n","o","t">>

StrAnd == <<"$","a","n","d">>

StrOr == <<"$","o","r">>

StrEq == <<"$","e","q">>

StrId == <<"_","i","d">>

\* bson!({ key => value })
bson_doc1(key, value) == Bson_Document(<<Entry(key, value)>>)

RECURSIVE condition_to_filter(_)

\* the document add_keys wrote into, once add_keys has returned
Filled(document) == [document |-> document]

\* condition_to_filter over the conditions conds, in order; the first one
\* that never returns ends the whole call
map_condition_to_filter(conds) ==
  LET filters == [i \in 1..Len(conds) |-> condition_to_filter(conds[i])]
  IN IF \E i \in 1..Len(filters) : filters[i] = Diverges
     THEN Diverges
     ELSE Bson_Array(filters)

\* add_keys of condition_to_filter: for (key, condition) in keys { .. };
\* Filled(document) when it returns, Diverges when a translation never does
RECURSIVE filter_add_keys(_, _, _)
filter_add_keys(document, pointer, keys) ==
  IF keys = <<>> THEN Filled(document)
  ELSE LET key == Head(keys).key
           condition == Head(keys).val
           sub_pointer == Append(pointer, key)
           after ==
             IF condition.c = "Keys"
             THEN filter_add_keys(document, sub_pointer, condition.keys)
             ELSE LET filter == condition_to_filter(condition)
                  IN IF filter = Diverges THEN Diverges
                     ELSE Filled(Document_insert(document, join(sub_pointer, Dot), filter))
       IN IF after = Diverges THEN Diverges
          ELSE filter_add_keys(after.document, pointer, Tail(keys))

\* the result is a Bson, or Diverges when a Value::Object has to be converted
condition_to_filter(condition) ==
  CASE condition.c = "Keys" ->
         LET filled == filter_add_keys(Document_new, <<>>, condition.keys)
         IN IF filled = Diverges THEN Diverges ELSE Bson_Document(filled.document)
    [] condition.c = "True" -> bson_doc1(StrWhere, Bson_String(StrTrue))
    [] condition.c = "False" -> bson_doc1(StrWhere, Bson_String(StrFalse))
    [] condition.c = "Not" ->
         LET filter == condition_to_filter(condition.cond)
         IN IF filter = Diverges THEN Diverges ELSE bson_doc1(StrNot, filter)
    [] condition.c = "And" ->
         LET filters == map_condition_to_filter(condition.conds)
         IN IF filters = Diverges THEN Diverges ELSE bson_doc1(StrAnd, filters)
    [] condition.c = "Or" ->
         LET filters == map_condition_to_filter(condition.conds)
         IN IF filters = Diverges THEN Diverges ELSE bson_doc1(StrOr, filters)
    [] condition.c = "Equal" ->
         LET bson_value == value_into_bson(condition.value)
         IN IF bson_value = Diverges THEN Diverges ELSE bson_doc1(StrEq, bson_value)

\* sort_rules_to_sort with the markers the other way round
RECURSIVE sort_rules_from_swapped(_, _, _)
sort_rules_from_swapped(document, sort_rules, i) ==
  IF i > Len(sort_rules) THEN document
  ELSE sort_rules_from_swapped(
         Document_insert(document, join(sort_rules[i].property, Dot),
                         Bson_I32(IF sort_rules[i].descending THEN 1 ELSE -1)),
         sort_rules, i + 1)

\* sort_rules_to_sort, from rule i on
RECURSIVE sort_rules_from(_, _, _)
sort_rules_from(document, sort_rules, i) ==
  IF i > Len(sort_rules) THEN document
  ELSE sort_rules_from(
         Document_insert(document, join(sort_rules[i].property, Dot),
                         Bson_I32(IF sort_rules[i].descending THEN -1 ELSE 1)),
         sort_rules, i + 1)

sort_rules_to_sort(sort_rules) ==
  Bson_Document(sort_rules_from(Document_new, sort_rules, 1))

\* projection_add_keys that also includes the path of every nested Keys
RECURSIVE projection_add_keys_with_parents(_, _, _)
projection_add_keys_with_parents(document, pointer, query) ==
  IF query.q = "All"
  THEN Document_insert(document, join(pointer, Dot), Bson_I32(1))
  ELSE LET RECURSIVE each(_, _)
           each(doc, i) ==
             IF i > Len(query.keys) THEN doc
             ELSE each(projection_add_keys_with_parents(
                         doc, Append(pointer, query.keys[i].key), query.keys[i].val),
                       i + 1)
       IN each(IF pointer = <<>> THEN document
               ELSE Document_insert(document, join(pointer, Dot), Bson_I32(1)), 1)

\* add_keys of query_to_projection
RECURSIVE projection_add_keys(_, _, _)
projection_add_keys(document, pointer, query) ==
  IF query.q = "All"
  THEN Document_insert(document, join(pointer, Dot), Bson_I32(1))
  ELSE LET RECURSIVE each(_, _)
           each(doc, i) ==
             IF i > Len(query.keys) THEN doc
             ELSE each(projection_add_keys(
                         doc, Append(pointer, query.keys[i].key), query.keys[i].val),
                       i + 1)
       IN each(document, 1)

query_to_projection(query) ==
  LET document == Document_insert(Document_new, StrId, Bson_I32(0))
  IN IF query = Query_All
     THEN Bson_Document(document)
     ELSE Bson_Document(projection_add_keys(document, <<>>, query))

----------------------------------------------------------------------------
(* The inputs: keys, queries and schemas up to a size.                     *)

KeyA == <<"a">>

\* an integer, negative
KeyNeg == <<"-", "1">>

\* 2^64: a non-negative integer that fits no machine word
KeyBig ==
  <<"1","8","4","4","6","7","4","4","0","7","3","7","0","9","5","5","1","6","1","6">>

QueryKeys == {KeyA, KeyNeg, KeyBig}

PropertyKeys == {KeyA, KeyBig}

\* an index of few digits
KeyZero == <<"0">>

PointerKeys == {KeyA, KeyNeg, KeyBig, KeyZero}

\* the number of keys of a pointer
MaxPointerLen == 2

Pointers == UNION {[1..n -> PointerKeys] : n \in 0..MaxPointerLen}

\* the number of keys of a query, at all depths
MaxQuerySize == 2

\* the number of child schemas of a schema, at all depths
MaxSchemaSize == 2

HasKey(m, k) == \E j \in 1..Len(m) : m[j].key = k

\* the set S, its elements listed once
Enumerated(S) == {x : x \in S}

RECURSIVE QueriesOfSize(_, _)
RECURSIVE QueryEntries(_, _)

\* the key maps over the keys ks whose entries hold n keys in all
QueryEntries(n, ks) ==
  IF n = 0 THEN {<<>>}
  ELSE UNION { UNION { { <<Entry(k, v)>> \o r :
                           v \in QueriesOfSize(i - 1, ks),
                           r \in {x \in QueryEntries(n - i, ks) : ~HasKey(x, k)} } :
                       k \in ks } :
               i \in 1..n }

QueriesOfSize(n, ks) ==
  IF n = 0 THEN {Query_All, Query_Keys(<<>>)}
  ELSE {Query_Keys(m) : m \in QueryEntries(n, ks)}

Queries == UNION {QueriesOfSize(n, QueryKeys) : n \in 0..MaxQuerySize}

EnumValues == <<[v |-> "Boolean", b |-> TRUE], [v |-> "Boolean", b |-> FALSE]>>

Primitives ==
  {SchemaNull, SchemaBoolean, SchemaNumber, SchemaString, SchemaEnum(EnumValues)}

RECURSIVE SchemasOfSize(_)
RECURSIVE SchemaProperties(_, _)

\* the property maps over the keys ks (in the order add_property met them)
\* whose schemas hold n - Cardinality(ks) children in all
SchemaProperties(n, ks) ==
  IF n = 0 THEN {<<>>}
  ELSE UNION { UNION { { <<Entry(k, s)>> \o r :
                           s \in SchemasOfSize(i - 1),
                           r \in {x \in SchemaProperties(n - i, ks) : ~HasKey(x, k)} } :
                       k \in ks } :
               i \in 1..n }

\* below the root every primitive behaves as SchemaBoolean does
SchemasOfSize(n) ==
  IF n = 0
  THEN {SchemaNone, SchemaBoolean, SchemaArray(None)}
         \cup {SchemaObject(<<>>, ap) : ap \in BOOLEAN}
  ELSE {SchemaArray(Some(s)) : s \in SchemasOfSize(n - 1)}
         \cup {SchemaObject(m, ap) : m \in SchemaProperties(n, PropertyKeys), ap \in BOOLEAN}

Schemas == Primitives \cup UNION {SchemasOfSize(n) : n \in 0..MaxSchemaSize}

----------------------------------------------------------------------------
(* The schema engine as a state machine: a schema is built, then           *)
(* validate_query is called on it.                                         *)

NoCall == [op |-> "none"]

InitSchema ==
  /\ schema \in Schemas
  /\ call = NoCall
  /\ backend = <<>>

ValidateQuery(query) ==
  /\ call' = [op |-> "validate_query", query |-> query,
              out |-> validate_query(schema, query),
              visited |-> validated_keys(schema, query)]
  /\ UNCHANGED <<schema, backend>>

Get(pointer) ==
  /\ call' = [op |-> "get", pointer |-> pointer, out |-> schema_get(schema, pointer),
              after |-> call]
  /\ UNCHANGED <<schema, backend>>

NextSchema ==
  /\ call = NoCall
  /\ \/ \E query \in Queries : ValidateQuery(query)
     \/ \E pointer \in Pointers : Get(pointer)

SpecSchema == InitSchema /\ [][NextSchema]_vars

----------------------------------------------------------------------------
(* The construction of a schema as a state machine: an object or an array  *)
(* is made, properties or items are placed in it, then get is called.      *)

\* the construction calls made so far, in order
Built(log) == [op |-> "build", log |-> log]

\* the schemas placed in an object or an array
PlacedSchemas == {SchemaBoolean, SchemaArray(Some(SchemaBoolean)), SchemaObject(<<>>, TRUE)}

\* the number of construction calls on a schema
MaxBuildCalls == 2

\* SchemaObject::new(), SchemaArray::new()
InitBuild ==
  /\ schema \in {SchemaObject(<<>>, FALSE), SchemaArray(None)}
  /\ call = Built(<<>>)
  /\ backend = <<>>

AddProperty(key, property_schema) ==
  /\ schema.kind = "Object"
  /\ Len(call.log) < MaxBuildCalls
  /\ schema' = add_property(schema, key, property_schema)
  /\ call' = Built(Append(call.log, [fn |-> "add_property", key |-> key,
                                     schema |-> property_schema]))
  /\ UNCHANGED backend

AddBoxedProperty(key, property_schema) ==
  /\ schema.kind = "Object"
  /\ Len(call.log) < MaxBuildCalls
  /\ schema' = add_property(schema, key, property_schema)
  /\ call' = Built(Append(call.log, [fn |-> "add_boxed_property", key |-> key,
                                     schema |-> property_schema]))
  /\ UNCHANGED backend

SetItems(items) ==
  /\ schema.kind = "Array"
  /\ Len(call.log) < MaxBuildCalls
  /\ schema' = set_items(schema, items)
  /\ call' = Built(Append(call.log, [fn |-> "set_items", schema |-> items]))
  /\ UNCHANGED backend

SetBoxedItems(items) ==
  /\ schema.kind = "Array"
  /\ Len(call.log) < MaxBuildCalls
  /\ schema' = set_items(schema, items)
  /\ call' = Built(Append(call.log, [fn |-> "set_boxed_items", schema |-> items]))
  /\ UNCHANGED backend

NextBuild ==
  /\ call.op = "build"
  /\ \/ \E key \in PropertyKeys, property_schema \in PlacedSchemas :
          AddProperty(key, property_schema)
     \/ \E key \in PropertyKeys, property_schema \in PlacedSchemas :
          AddBoxedProperty(key, property_schema)
     \/ \E items \in PlacedSchemas : SetItems(items)
     \/ \E items \in PlacedSchemas : SetBoxedItems(items)
     \/ \E pointer \in Pointers : Get(pointer)

SpecBuild == InitBuild /\ [][NextBuild]_vars

----------------------------------------------------------------------------
(* The inputs of the translations.                                         *)

KeyB == <<"b">>

\* a key that holds the separator: the pointer [a.b] joins as [a, b] does
KeyAdotB == <<"a", ".", "b">>

ConditionKeys == {KeyA, KeyB, KeyAdotB}

ProjectionKeys == {KeyA, KeyB, KeyAdotB, StrId}

StrHello == <<"h","e","l","l","o">>

Values ==
  {Value_Null, Value_Boolean(TRUE), Value_I64(42), Value_String(StrHello),
   Value_Array(<<>>), Value_Array(<<Value_I64(4), Value_Null>>),
   Value_Object(<<>>), Value_Object(<<Entry(KeyA, Value_I64(4))>>),
   Value_Array(<<Value_I64(4), Value_Object(<<>>)>>)}

\* the values under Equal inside a larger condition
LeafValues == {Value_I64(4), Value_Object(<<>>)}

\* the number of nodes of a condition
MaxConditionSize == 4

\* the number of keys of a query to project, at all depths
MaxProjectionSize == 3

\* the conditions of n nodes, given the sequences (seqs) and the key maps
\* (entries) of conditions that hold n - 1 nodes in all and, for n > 1, the
\* conditions (smaller) of n - 1 nodes
ConditionsOver(n, smaller, seqs, entries) ==
  Enumerated(
    (IF n = 1
     THEN {Condition_True, Condition_False} \cup {Condition_Equal(v) : v \in LeafValues}
     ELSE {Condition_Not(c) : c \in smaller})
    \cup {Condition_And(cs) : cs \in seqs}
    \cup {Condition_Or(cs) : cs \in seqs}
    \cup {Condition_Keys(m) : m \in entries})

\* the sequences of conditions that hold Len(conds) nodes in all, given
\* conds[i], the conditions of i nodes, and seqs[i + 1], the sequences that
\* hold i nodes in all
ConditionSeqsOver(conds, seqs) ==
  LET n == Len(conds)
  IN Enumerated(
       UNION { { <<c>> \o r : c \in conds[i], r \in seqs[n - i + 1] } : i \in 1..n })

\* the same for the key maps
ConditionEntriesOver(conds, entries) ==
  LET n == Len(conds)
  IN Enumerated(
       UNION { UNION { { <<Entry(k, c)>> \o r :
                           c \in conds[i],
                           r \in {x \in entries[n - i + 1] : ~HasKey(x, k)} } :
                       k \in ConditionKeys } :
               i \in 1..n })

Seqs0 == {<<>>}

Entries0 == {<<>>}

Conds1 == ConditionsOver(1, {}, Seqs0, Entries0)

Seqs1 == ConditionSeqsOver(<<Conds1>>, <<Seqs0>>)

Entries1 == ConditionEntriesOver(<<Conds1>>, <<Entries0>>)

Conds2 == ConditionsOver(2, Conds1, Seqs1, Entries1)

Seqs2 == ConditionSeqsOver(<<Conds1, Conds2>>, <<Seqs0, Seqs1>>)

Entries2 == ConditionEntriesOver(<<Conds1, Conds2>>, <<Entries0, Entries1>>)

Conds3 == ConditionsOver(3, Conds2, Seqs2, Entries2)

Seqs3 == ConditionSeqsOver(<<Conds1, Conds2, Conds3>>, <<Seqs0, Seqs1, Seqs2>>)

Entries3 ==
  ConditionEntriesOver(<<Conds1, Conds2, Conds3>>, <<Entries0, Entries1, Entries2>>)

Conds4 == ConditionsOver(4, Conds3, Seqs3, Entries3)

\* the conditions of n nodes
ConditionsOfSize(n) ==
  CASE n = 1 -> Conds1
    [] n = 2 -> Conds2
    [] n = 3 -> Conds3
    [] n = 4 -> Conds4

\* the sequences of conditions that hold n nodes in all
ConditionSeqs(n) ==
  CASE n = 0 -> Seqs0
    [] n = 1 -> Seqs1
    [] n = 2 -> Seqs2
    [] n = 3 -> Seqs3

\* the key maps whose conditions hold n nodes in all
ConditionEntries(n) ==
  CASE n = 0 -> Entries0
    [] n = 1 -> Entries1
    [] n = 2 -> Entries2
    [] n = 3 -> Entries3

\* the sizes (i, j) of a first condition and of the ones after it, under a
\* node that makes MaxConditionSize nodes at most with them
SplitSizes ==
  {ij \in (1..(MaxConditionSize - 1)) \X (0..(MaxConditionSize - 2)) :
     ij[1] + ij[2] <= MaxConditionSize - 1}

ProjectionQueries ==
  UNION {QueriesOfSize(n, ProjectionKeys) : n \in 0..MaxProjectionSize}

SortProperties == {<<KeyA>>, <<KeyA, KeyB>>, <<KeyAdotB>>, <<StrHello, KeyA>>}

SortRules ==
  {SortRule(property, descending) : property \in SortProperties, descending \in BOOLEAN}

\* the number of rules of a sort
MaxSortRules == 2

SortRuleLists == UNION {[1..n -> SortRules] : n \in 0..MaxSortRules}

----------------------------------------------------------------------------
(* The translations as a state machine: one of them is applied to an       *)
(* input.                                                                  *)

InitTranslate ==
  /\ schema = SchemaNone
  /\ call = NoCall
  /\ backend = <<>>

ConditionToFilter(condition) ==
  /\ call' = [op |-> "condition_to_filter", condition |-> condition,
              out |-> condition_to_filter(condition)]
  /\ UNCHANGED <<schema, backend>>

ValueIntoBson(value) ==
  /\ call' = [op |-> "value_into_bson", value |-> value,
              out |-> value_into_bson(value)]
  /\ UNCHANGED <<schema, backend>>

\* every condition of MaxConditionSize nodes at most is drawn: a leaf or an
\* empty connective, a Not, or an And, an Or or a Keys over a first condition
\* and the ones after it
NextFilter ==
  /\ call = NoCall
  /\ \/ \E value \in Values : ValueIntoBson(value)
     \/ \E value \in Values : ConditionToFilter(Condition_Equal(value))
     \/ \E condition \in Conds1 : ConditionToFilter(condition)
     \/ \E n \in 1..(MaxConditionSize - 1) : \E cond \in ConditionsOfSize(n) :
          ConditionToFilter(Condition_Not(cond))
     \/ \E ij \in SplitSizes :
          \E cond \in ConditionsOfSize(ij[1]), rest \in ConditionSeqs(ij[2]) :
            \/ ConditionToFilter(Condition_And(<<cond>> \o rest))
            \/ ConditionToFilter(Condition_Or(<<cond>> \o rest))
     \/ \E ij \in SplitSizes, key \in ConditionKeys :
          \E cond \in ConditionsOfSize(ij[1]), rest \in ConditionEntries(ij[2]) :
            /\ ~HasKey(rest, key)
            /\ ConditionToFilter(Condition_Keys(<<Entry(key, cond)>> \o rest))

SpecFilter == InitTranslate /\ [][NextFilter]_vars

QueryToProjection(query) ==
  /\ call' = [op |-> "query_to_projection", query |-> query,
              out |-> query_to_projection(query)]
  /\ UNCHANGED <<schema, backend>>

SortRulesToSort(sort_rules) ==
  /\ call' = [op |-> "sort_rules_to_sort", sort_rules |-> sort_rules,
              out |-> sort_rules_to_sort(sort_rules)]
  /\ UNCHANGED <<schema, backend>>

NextProjection ==
  /\ call = NoCall
  /\ \/ \E query \in ProjectionQueries : QueryToProjection(query)
     \/ \E sort_rules \in SortRuleLists : SortRulesToSort(sort_rules)

SpecProjection == InitTranslate /\ [][NextProjection]_vars

\* both translations of a condition and of a query, side by side
NextTranslate == NextFilter \/ NextProjection

SpecTranslate == InitTranslate /\ [][NextTranslate]_vars

----------------------------------------------------------------------------
(* driver/mongodb.rs: MongoDriver::read, and Driver::read_one over it.     *)

\* impl From<Bson> for Value, and impl From<Document> for Value
RECURSIVE value_from_bson(_)
value_from_bson(bson) ==
  CASE bson.b = "Null" -> Value_Null
    [] bson.b = "Boolean" -> Value_Boolean(bson.bool)
    [] bson.b = "I32" -> Value_I64(bson.i32)
    [] bson.b = "I64" -> Value_I64(bson.i64)
    [] bson.b = "String" -> Value_String(bson.str)
    [] bson.b = "Array" ->
         Value_Array([i \in 1..Len(bson.array) |-> value_from_bson(bson.array[i])])
    [] bson.b = "Document" ->
         LET RECURSIVE each(_, _)
             each(object, i) ==
               IF i > Len(bson.doc) THEN object
               ELSE each(LinearMap_insert(object, bson.doc[i].key,
                                          value_from_bson(bson.doc[i].val)),
                         i + 1)
         IN Value_Object(each(<<>>, 1))

StrFind == <<"f","i","n","d">>

StrFilter == <<"f","i","l","t","e","r">>

StrSort == <<"s","o","r","t">>

StrProjection == <<"p","r","o","j","e","c","t","i","o","n">>

StrLimit == <<"l","i","m","i","t">>

StrSkip == <<"s","k","i","p">>

\* Type: its name and its schema
Type(name, type_schema) == [name |-> name, schema |-> type_schema]

\* the command document read hands to command_cursor, or Diverges when the
\* filter is never built
find_command(type_, condition, sort, range, query) ==
  LET filter == condition_to_filter(condition)
  IN IF filter = Diverges THEN Diverges
     ELSE LET spec ==
                <<Entry(StrFind, Bson_String(type_.name)),
                  Entry(StrFilter, filter),
                  Entry(StrSort, sort_rules_to_sort(sort)),
                  Entry(StrProjection, query_to_projection(query))>>
              with_limit ==
                IF range.limit # None
                THEN Document_insert(spec, StrLimit, Bson_I64(range.limit.val))
                ELSE spec
              with_skip ==
                IF range.offset # None
                THEN Document_insert(with_limit, StrSkip, Bson_I64(range.offset.val))
                ELSE with_limit
          IN Filled(with_skip)

\* cursor.filter_map(Result::ok).map(Value::from)
RECURSIVE cursor_values(_)
cursor_values(cursor) ==
  IF cursor = <<>> THEN <<>>
  ELSE IF is_ok(Head(cursor))
  THEN <<value_from_bson(Bson_Document(Head(cursor).val))>> \o cursor_values(Tail(cursor))
  ELSE cursor_values(Tail(cursor))

\* what a call has done: its result (Diverges when it never returns) and the
\* commands it handed to the backend
Done(out, commands) == [out |-> out, commands |-> commands]

\* MongoDriver::read; response is the answer of the backend to the command:
\* Err(description), or Ok(cursor), a cursor yielding Ok(document) and Err
MongoDriver_read(type_, condition, sort, range, query, response) ==
  LET command == find_command(type_, condition, sort, range, query)
  IN IF command = Diverges THEN Done(Diverges, <<>>)
     ELSE IF is_err(response)
     THEN Done(Err(Error_internal(response.error)), <<command.document>>)
     ELSE Done(Ok(cursor_values(response.val)), <<command.document>>)

StrMoreThanOne ==
  <<"R","e","a","d"," ","w","i","t","h"," ","a"," ","l","i","m","i","t"," ","o","f"," ",
    "o","n","e"," ","r","e","t","u","r","n","e","d"," ","m","o","r","e"," ","t","h","a","n",
    " ","o","n","e"," ","v","a","l","u","e",".">>

StrNoValue ==
  <<"N","o"," ","v","a","l","u","e"," ","w","a","s"," ","f","o","u","n","d"," ","f","o","r",
    " ","t","h","e"," ","c","o","n","d","i","t","i","o","n",".">>

\* read_one that takes the first of several values
Driver_read_one_first(type_, condition, query, response) ==
  LET done == MongoDriver_read(type_, condition, <<>>, Range(None, Some(1)), query, response)
  IN IF done.out = Diverges \/ is_err(done.out) THEN done
     ELSE LET values == done.out.val
          IN IF Len(values) >= 1
             THEN Done(Ok(values[1]), done.commands)
             ELSE Done(Err([code |-> NotFound, message |-> StrNoValue, hint |-> None]),
                       done.commands)

\* read_one that reads without a limit and answers a failed read by NotFound
Driver_read_one_unlimited(type_, condition, query, response) ==
  LET done == MongoDriver_read(type_, condition, <<>>, Range(None, None), query, response)
  IN IF done.out = Diverges THEN done
     ELSE IF is_err(done.out) \/ Len(done.out.val) = 0
     THEN Done(Err([code |-> NotFound, message |-> StrNoValue, hint |-> None]),
               done.commands)
     ELSE IF Len(done.out.val) > 1
     THEN Done(Err(Error_internal(StrMoreThanOne)), done.commands)
     ELSE Done(Ok(done.out.val[1]), done.commands)

\* Driver::read_one
Driver_read_one(type_, condition, query, response) ==
  LET done == MongoDriver_read(type_, condition, <<>>, Range(None, Some(1)), query, response)
  IN IF done.out = Diverges \/ is_err(done.out) THEN done
     ELSE LET values == done.out.val
          IN IF Len(values) > 1
             THEN Done(Err(Error_internal(StrMoreThanOne)), done.commands)
             ELSE IF Len(values) = 1
             THEN Done(Ok(values[1]), done.commands)
             ELSE Done(Err([code |-> NotFound, message |-> StrNoValue, hint |-> None]),
                       done.commands)

StrPeople == <<"p","e","o","p","l","e">>

\* the schemas of the type that is read
TypeSchemas ==
  {SchemaNone, SchemaBoolean, SchemaObject(<<>>, FALSE),
   SchemaObject(<<Entry(KeyA, SchemaBoolean)>>, FALSE),
   SchemaObject(<<Entry(KeyA, SchemaNone)>>, TRUE),
   SchemaArray(Some(SchemaBoolean))}

ReadConditions ==
  {Condition_True,
   Condition_Keys(<<Entry(KeyA, Condition_Equal(Value_I64(4)))>>),
   Condition_Not(Condition_Equal(Value_Object(<<>>)))}

ReadSorts == {<<>>, <<SortRule(<<KeyA, KeyB>>, TRUE)>>}

\* the largest offset and limit of a range
MaxRange == 1

Ranges ==
  {Range(offset, limit) :
     offset \in {None} \cup {Some(n) : n \in 0..MaxRange},
     limit \in {None} \cup {Some(n) : n \in 0..MaxRange}}

ReadQueries ==
  {Query_All, Query_Keys(<<>>), Query_Keys(<<Entry(KeyA, Query_All)>>),
   Query_Keys(<<Entry(KeyA, Query_Keys(<<Entry(KeyB, Query_All)>>))>>),
   Query_Keys(<<Entry(KeyNeg, Query_All)>>)}

StrIoError == <<"i","o"," ","e","r","r","o","r">>

DocA == <<Entry(KeyA, Bson_I32(1)), Entry(KeyB, Bson_String(StrHello))>>

DocB == <<Entry(KeyB, Bson_Document(DocA))>>

\* the number of items a cursor yields
MaxCursor == 2

CursorItems == {Ok(DocA), Ok(DocB), Err(StrIoError)}

Cursors == UNION {[1..n -> CursorItems] : n \in 0..MaxCursor}

Responses == {Err(StrIoError)} \cup {Ok(cursor) : cursor \in Cursors}

StrMongodb == <<"m","o","n","g","o","d","b",":","/","/">>

StrHttp == <<"h","t","t","p",":","/","/">>

StrInvalidUri == <<"i","n","v","a","l","i","d"," ","u","r","i">>

\* the place of the first "/" of s from place i on, 0 when there is none
RECURSIVE find_slash(_, _)
find_slash(s, i) ==
  IF i > Len(s) THEN 0
  ELSE IF s[i] = "/" THEN i
  ELSE find_slash(s, i + 1)

\* connstring::parse, as far as connect uses it: Err(description) unless the
\* scheme is mongodb://; the database is what follows the "/" after the
\* hosts, None when there is no "/"
connstring_parse(uri) ==
  IF Len(uri) < Len(StrMongodb) \/ SubSeq(uri, 1, Len(StrMongodb)) # StrMongodb
  THEN Err(StrInvalidUri)
  ELSE LET slash == find_slash(uri, Len(StrMongodb) + 1)
       IN Ok([uri |-> uri,
              database |-> IF slash = 0 THEN None
                           ELSE Some(SubSeq(uri, slash + 1, Len(uri)))])

\* format!("Database name not provided in connection path '{}'.", uri)
MsgNoDatabase(uri) ==
  <<"D","a","t","a","b","a","s","e"," ","n","a","m","e"," ","n","o","t"," ",
    "p","r","o","v","i","d","e","d"," ","i","n"," ","c","o","n","n","e","c","t","i","o","n",
    " ","p","a","t","h"," ","'">> \o uri \o <<"'",".">>

HintNoDatabase ==
  <<"I","n","c","l","u","d","e"," ","t","h","e"," ","d","a","t","a","b","a","s","e"," ",
    "n","a","m","e"," ","y","o","u"," ","a","r","e"," ","c","o","n","n","e","c","t","i","n","g",
    " ","t","o"," ","a","s"," ","t","h","e"," ","c","o","n","n","e","c","t","i","o","n"," ",
    "U","R","I"," ","p","a","t","h",".">>

\* MongoDriver { database: client.db(db_name) }
MongoDriver(db_name) == [database |-> db_name]

\* what a call of connect has done: its result and the configurations
\* Client::with_config was called with
Connected(out, clients) == [out |-> out, clients |-> clients]

\* connect that makes the client before it looks for the database name
MongoDriver_connect_client_first(uri, client) ==
  LET config == connstring_parse(uri)
  IN IF is_err(config) THEN Connected(Err(Error_internal(config.error)), <<>>)
     ELSE IF is_err(client)
     THEN Connected(Err(Error_internal(client.error)), <<config.val>>)
     ELSE IF config.val.database # None
     THEN Connected(Ok(MongoDriver(config.val.database.val)), <<config.val>>)
     ELSE Connected(Err(Error_invalid(MsgNoDatabase(uri), HintNoDatabase)), <<config.val>>)

\* MongoDriver::connect; client is what Client::with_config returns when it
\* is called: Ok, or Err(description)
MongoDriver_connect(uri, client) ==
  LET config == connstring_parse(uri)
  IN IF is_err(config) THEN Connected(Err(Error_internal(config.error)), <<>>)
     ELSE IF config.val.database # None
     THEN IF is_err(client)
          THEN Connected(Err(Error_internal(client.error)), <<config.val>>)
          ELSE Connected(Ok(MongoDriver(config.val.database.val)), <<config.val>>)
     ELSE Connected(Err(Error_invalid(MsgNoDatabase(uri), HintNoDatabase)), <<>>)

UriWithDatabase == StrMongodb \o <<"h","/","d","b">>

UriWithoutDatabase == StrMongodb \o <<"h">>

UriOfOtherScheme == StrHttp \o <<"h","/","d","b">>

Uris == {UriWithDatabase, UriWithoutDatabase, UriOfOtherScheme}

ClientResults == {Ok(Unit), Err(StrIoError)}

\* Document::get
Document_get(document, key) ==
  IF Document_contains_key(document, key)
  THEN Some((CHOOSE e \in {document[i] : i \in 1..Len(document)} : e.key = key).val)
  ELSE None

\* the items from the first one after skip on, limit of them at most
Page(items, skip, limit) ==
  SubSeq(items, skip + 1,
         IF skip + limit < Len(items) THEN skip + limit ELSE Len(items))

\* what the backend answers to a find command. answer is what it would
\* yield for the filter, the sort and the projection of the command alone:
\* Err(description), or Ok of the matching records in order, the delivery of
\* a record being Ok(document) or Err. A backend that honours the command
\* skips "skip" records and then yields "limit" records at most, a limit of 0
\* or none being no limit; one that does not yields them all
Backend_find(command, answer, honours) ==
  IF is_err(answer) \/ ~honours THEN answer
  ELSE LET skip == Document_get(command, StrSkip)
           limit == Document_get(command, StrLimit)
           skipped == IF skip = None THEN 0 ELSE skip.val.i64
           kept == IF limit = None \/ limit.val = Bson_I64(0)
                   THEN Len(answer.val)
                   ELSE limit.val.i64
       IN Ok(Page(answer.val, skipped, kept))

\* what command_cursor returns to read
command_cursor(command, answer, honours) ==
  IF command = Diverges THEN answer
  ELSE Backend_find(command.document, answer, honours)

Init ==
  /\ schema \in TypeSchemas
  /\ call = NoCall
  /\ backend = <<>>

Read(condition, sort, range, query, answer, honours) ==
  LET type_ == Type(StrPeople, schema)
      response == command_cursor(find_command(type_, condition, sort, range, query),
                                 answer, honours)
      done == MongoDriver_read(type_, condition, sort, range, query, response)
  IN /\ call' = [op |-> "read", condition |-> condition, sort |-> sort,
                 range |-> range, query |-> query, answer |-> answer,
                 honours |-> honours, out |-> done.out]
     /\ backend' = backend \o done.commands
     /\ UNCHANGED schema

ReadOne(condition, query, answer, honours) ==
  LET type_ == Type(StrPeople, schema)
      response == command_cursor(
                    find_command(type_, condition, <<>>, Range(None, Some(1)), query),
                    answer, honours)
      done == Driver_read_one(type_, condition, query, response)
  IN /\ call' = [op |-> "read_one", condition |-> condition, query |-> query,
                 answer |-> answer, honours |-> honours, out |-> done.out]
     /\ backend' = backend \o done.commands
     /\ UNCHANGED schema

Connect(uri, client) ==
  LET connected == MongoDriver_connect(uri, client)
  IN /\ call' = [op |-> "connect", uri |-> uri, client |-> client,
                 out |-> connected.out, clients |-> connected.clients]
     /\ UNCHANGED <<schema, backend>>

Next ==
  /\ call = NoCall
  /\ \/ \E condition \in ReadConditions, sort \in ReadSorts, range \in Ranges,
          query \in ReadQueries, answer \in Responses, honours \in BOOLEAN :
          Read(condition, sort, range, query, answer, honours)
     \/ \E condition \in ReadConditions, query \in ReadQueries, answer \in Responses,
          honours \in BOOLEAN :
          ReadOne(condition, query, answer, honours)
     \/ \E uri \in Uris, client \in ClientResults : Connect(uri, client)

Spec == Init /\ [][Next]_vars

----------------------------------------------------------------------------
(* Errors: an error is constructed, may be given a hint, and is then        *)
(* converted with to_value; a code is displayed.                            *)

MaxTextLen == 2

TextChars == {"a", "b"}

Texts == UNION {[1..n -> TextChars] : n \in 0..MaxTextLen}

InitError ==
  /\ schema = SchemaNone
  /\ backend = <<>>
  /\ \E code \in Codes, message \in Texts :
       call = [op |-> "error", self |-> Error_new(code, message)]

SetHint(hint) ==
  /\ call.op = "error"
  /\ call.self.hint = None
  /\ call' = [call EXCEPT !.self = Error_set_hint(call.self, hint)]
  /\ UNCHANGED <<schema, backend>>

\* to_value borrows the error: the caller keeps it, recorded in self
ToValue ==
  /\ call.op = "error"
  /\ call' = [op |-> "to_value", before |-> call.self, self |-> call.self,
              out |-> Error_to_value(call.self)]
  /\ UNCHANGED <<schema, backend>>

CodeDisplay ==
  /\ call.op = "error"
  /\ call' = [op |-> "code_fmt", code |-> call.self.code,
              integer |-> Code_to_u16(call.self.code),
              reason |-> Code_reason(call.self.code),
              out |-> Code_fmt(call.self.code)]
  /\ UNCHANGED <<schema, backend>>

NextError ==
  \/ \E hint \in Texts : SetHint(hint)
  \/ ToValue
  \/ CodeDisplay

SpecError == InitError /\ [][NextError]_vars

----------------------------------------------------------------------------
(* What the claims about validate_query say, stated on the call recorded   *)
(* in the state.                                                           *)

Validated == call.op = "validate_query"

ValidatedKeys == Validated /\ call.query.q = "Keys"

\* a non-empty string of decimal digits
IsNonNegativeIntegerString(k) ==
  k # <<>> /\ {k[i] : i \in 1..Len(k)} \subseteq Digits

Declared(s, k) == k \in {s.properties[i].key : i \in 1..Len(s.properties)}

PropertySchema(s, k) ==
  s.properties[CHOOSE i \in 1..Len(s.properties) : s.properties[i].key = k].val

\* entry i of the key map m passes under the Object schema s
ObjectKeyPasses(s, m, i) ==
  IF Declared(s, m[i].key)
  THEN validate_query(PropertySchema(s, m[i].key), m[i].val) = Ok(Unit)
  ELSE s.additional_properties

\* entry i of the key map m passes under the Array schema s
ArrayKeyPasses(s, m, i) ==
  /\ IsNonNegativeIntegerString(m[i].key)
  /\ s.items.opt = "Some" => validate_query(s.items.val, m[i].val) = Ok(Unit)

KeyPasses(s, m, i) ==
  IF s.kind = "Object" THEN ObjectKeyPasses(s, m, i) ELSE ArrayKeyPasses(s, m, i)

IsBadRequest(r) == r.res = "Err" /\ r.error.code = "BadRequest"

TextObjectProperty(k) ==
  <<"C","a","n","n","o","t"," ","q","u","e","r","y"," ","o","b","j","e","c","t"," ","p","r","o","p","e","r","t","y"," ">>
  \o Quote \o k \o Quote \o <<".">>

TextNonInteger(k) ==
  <<"n","o","n","-","i","n","t","e","g","e","r"," ">> \o Quote \o k \o Quote

TextDeeplyQuery == <<"d","e","e","p","l","y"," ","q","u","e","r","y">>

\* C2: on an Object schema, validate_query(Keys(m)) is Ok exactly when every
\* key of m is a declared property whose schema validates its sub-query, or
\* is undeclared with additionalProperties enabled; an undeclared key with
\* additionalProperties disabled makes it fail with BadRequest, and the error
\* of that key (the one returned when no earlier key fails) is
\* "Cannot query object property \"k\".".
C2_ObjectValidateQuery ==
  (ValidatedKeys /\ schema.kind = "Object") =>
    LET m == call.query.keys IN
    /\ call.out = Ok(Unit) <=> \A i \in 1..Len(m) : ObjectKeyPasses(schema, m, i)
    /\ \A i \in 1..Len(m) :
         (~Declared(schema, m[i].key) /\ ~schema.additional_properties) =>
           /\ IsBadRequest(call.out)
           /\ IsBadRequest(object_key(schema, m, m[i].key, <<>>).result)
           /\ object_key(schema, m, m[i].key, <<>>).result.error.message
                = TextObjectProperty(m[i].key)
           /\ (\A j \in 1..(i - 1) : ObjectKeyPasses(schema, m, j)) =>
                call.out.error.message = TextObjectProperty(m[i].key)

\* a declared key passes beside an undeclared one that fails and is named
C2_Witness ==
  /\ ValidatedKeys /\ schema.kind = "Object"
  /\ Len(call.query.keys) = 2
  /\ Declared(schema, call.query.keys[1].key)
  /\ ~Declared(schema, call.query.keys[2].key)
  /\ ~schema.additional_properties
  /\ is_err(call.out)
  /\ call.out.error.message = TextObjectProperty(call.query.keys[2].key)

\* C3: on an Array schema, validate_query(Keys(m)) is Ok exactly when every
\* key of m is a non-negative-integer string, of any magnitude, and, when an
\* items schema exists, every sub-query validates against it; a non-integer
\* key makes it fail with BadRequest, and the error of that key (the one
\* returned when no earlier key fails) contains non-integer "k".
C3_ArrayValidateQuery ==
  (ValidatedKeys /\ schema.kind = "Array") =>
    LET m == call.query.keys IN
    /\ call.out = Ok(Unit) <=> \A i \in 1..Len(m) : ArrayKeyPasses(schema, m, i)
    /\ \A i \in 1..Len(m) :
         ~IsNonNegativeIntegerString(m[i].key) =>
           /\ IsBadRequest(call.out)
           /\ IsBadRequest(array_key(schema, m, m[i].key, <<>>).result)
           /\ Contains(array_key(schema, m, m[i].key, <<>>).result.error.message,
                       TextNonInteger(m[i].key))
           /\ (\A j \in 1..(i - 1) : ArrayKeyPasses(schema, m, j)) =>
                Contains(call.out.error.message, TextNonInteger(m[i].key))

\* an index beyond 64 bits passes and a negative one is refused by name
C3_Witness ==
  /\ ValidatedKeys /\ schema.kind = "Array"
  /\ Len(call.query.keys) = 2
  /\ call.query.keys[1].key = KeyBig
  /\ call.query.keys[2].key = KeyNeg
  /\ is_err(call.out)
  /\ Contains(call.out.error.message, TextNonInteger(KeyNeg))

\* an Array without items accepts any sub-query under an integer key
C3_WitnessNoItems ==
  /\ ValidatedKeys /\ schema = SchemaArray(None)
  /\ call.query = Query_Keys(<<Entry(KeyBig, Query_Keys(<<Entry(KeyA, Query_All)>>))>>)
  /\ call.out = Ok(Unit)

\* C4: on every primitive schema (Null, Boolean, Number, String, Enum) every
\* Query::Keys, the empty map included, fails with a BadRequest error whose
\* message contains "deeply query"; only Query::All succeeds.
C4_PrimitiveValidateQuery ==
  (Validated /\ schema.kind \in PrimitiveKinds) =>
    /\ call.query.q = "Keys" =>
         /\ IsBadRequest(call.out)
         /\ Contains(call.out.error.message, TextDeeplyQuery)
    /\ call.out = Ok(Unit) <=> call.query = Query_All

\* the Enum schema refuses Keys of the empty map
C4_Witness ==
  /\ Validated /\ schema.kind = "Enum"
  /\ call.query = Query_Keys(<<>>)
  /\ IsBadRequest(call.out)
  /\ Contains(call.out.error.message, TextDeeplyQuery)

\* C5: validate_query(Query::All) succeeds on every schema of every variant.
C5_AllValidates ==
  (Validated /\ call.query = Query_All) => call.out = Ok(Unit)

\* Query::All on an Object that declares a property, additionalProperties off
C5_Witness ==
  /\ Validated /\ call.query = Query_All
  /\ schema.kind = "Object" /\ Len(schema.properties) > 0
  /\ ~schema.additional_properties
  /\ call.out = Ok(Unit)

\* C6: the None schema validates every query, whatever its keys and depth.
C6_NoneValidates ==
  (Validated /\ schema.kind = "None") => call.out = Ok(Unit)

\* a nested Keys query with a non-integer key on the None schema
C6_Witness ==
  /\ Validated /\ schema = SchemaNone
  /\ call.query = Query_Keys(<<Entry(KeyNeg, Query_Keys(<<Entry(KeyA, Query_All)>>))>>)
  /\ call.out = Ok(Unit)

\* the first entry of m, in iteration order, that does not pass
FirstFailing(s, m) ==
  CHOOSE i \in 1..Len(m) :
    ~KeyPasses(s, m, i) /\ \A j \in 1..(i - 1) : KeyPasses(s, m, j)

\* the keys of the outermost map among the visited pointers, in order
RECURSIVE OutermostKeys(_)
OutermostKeys(visited) ==
  IF visited = <<>> THEN <<>>
  ELSE IF Len(Head(visited)) = 1
  THEN <<Head(visited)[1]>> \o OutermostKeys(Tail(visited))
  ELSE OutermostKeys(Tail(visited))

\* C7: when validate_query of an Object or Array schema fails on Keys(m), the
\* error is exactly the error of the first key of m, in iteration order, whose
\* validation fails; the keys after it are not validated, and the errors of
\* several failing keys are never combined.
C7_FirstFailingKey ==
  (ValidatedKeys /\ schema.kind \in {"Object", "Array"} /\ is_err(call.out)) =>
    LET m == call.query.keys
        f == FirstFailing(schema, m)
    IN /\ \E i \in 1..Len(m) : ~KeyPasses(schema, m, i)
       /\ call.out = key_closure(schema, m, m[f].key, <<>>).result
       /\ OutermostKeys(call.visited) = [j \in 1..f |-> m[j].key]
       /\ \A n \in 1..Len(call.visited) :
            call.visited[n][1] \in {m[j].key : j \in 1..f}

\* two keys fail with different errors; the first one's error is returned
\* and the second key is never validated
C7_Witness ==
  /\ ValidatedKeys /\ schema.kind = "Object" /\ is_err(call.out)
  /\ Len(call.query.keys) = 2
  /\ ~KeyPasses(schema, call.query.keys, 1)
  /\ ~KeyPasses(schema, call.query.keys, 2)
  /\ object_key(schema, call.query.keys, call.query.keys[2].key, <<>>).result # call.out
  /\ call.out.error.message = MsgDeeply
  /\ call.visited = <<<<call.query.keys[1].key>>>>

----------------------------------------------------------------------------
(* What the claims about the translations say, in terms of the conditions  *)
(* and queries alone.                                                      *)

\* the Bson that holds the value v: an object is a document of its entries
RECURSIVE BsonOf(_)
BsonOf(v) ==
  CASE v.v = "Null" -> Bson_Null
    [] v.v = "Boolean" -> Bson_Boolean(v.b)
    [] v.v = "I64" -> Bson_I64(v.i)
    [] v.v = "String" -> Bson_String(v.s)
    [] v.v = "Array" -> Bson_Array([i \in 1..Len(v.array) |-> BsonOf(v.array[i])])
    [] v.v = "Object" ->
         Bson_Document([i \in 1..Len(v.object) |->
                          Entry(v.object[i].key, BsonOf(v.object[i].val))])

RECURSIVE Translation(_)
RECURSIVE FlatEntries(_, _)

\* one entry for every sub-condition under keys that is not a Keys, in
\* iteration order, at the keys from the root joined with "."
FlatEntries(pointer, keys) ==
  IF keys = <<>> THEN <<>>
  ELSE LET path == Append(pointer, Head(keys).key)
           condition == Head(keys).val
       IN (IF condition.c = "Keys"
           THEN FlatEntries(path, condition.keys)
           ELSE <<Entry(join(path, Dot), Translation(condition))>>)
          \o FlatEntries(pointer, Tail(keys))

\* the filter that mirrors the condition
Translation(condition) ==
  CASE condition.c = "True" -> Bson_Document(<<Entry(StrWhere, Bson_String(StrTrue))>>)
    [] condition.c = "False" -> Bson_Document(<<Entry(StrWhere, Bson_String(StrFalse))>>)
    [] condition.c = "Not" ->
         Bson_Document(<<Entry(StrNot, Translation(condition.cond))>>)
    [] condition.c = "And" ->
         Bson_Document(<<Entry(StrAnd,
           Bson_Array([i \in 1..Len(condition.conds) |-> Translation(condition.conds[i])]))>>)
    [] condition.c = "Or" ->
         Bson_Document(<<Entry(StrOr,
           Bson_Array([i \in 1..Len(condition.conds) |-> Translation(condition.conds[i])]))>>)
    [] condition.c = "Equal" -> Bson_Document(<<Entry(StrEq, BsonOf(condition.value))>>)
    [] condition.c = "Keys" -> Bson_Document(FlatEntries(<<>>, condition.keys))

Filtered == call.op = "condition_to_filter"

\* C8: condition_to_filter of Condition::Keys(m) gives one flat document: a
\* nested Keys is recursed into with its key appended to the pointer and has
\* no entry of its own, and every sub-condition that is not a Keys has exactly
\* one entry, in iteration order, whose key is the pointer joined with "." and
\* whose value is the translation of the sub-condition.
C8_KeysFlattened ==
  (Filtered /\ call.condition.c = "Keys") =>
    call.out = Bson_Document(FlatEntries(<<>>, call.condition.keys))

\* C9: condition_to_filter translates the connectives structurally: True and
\* False give {$where: "true"} and {$where: "false"}, Not(c) gives
\* {$not: translation of c}, And(cs) and Or(cs) give {$and: [..]} and
\* {$or: [..]} over the translations of cs, in the same order and number, and
\* Equal(v) gives {$eq: v}.
C9_ConnectivesStructural ==
  (Filtered /\ call.condition.c \in {"True", "False", "Not", "And", "Or", "Equal"}) =>
    call.out = Translation(call.condition)

Projected == call.op = "query_to_projection"

\* one inclusion entry for every Query::All below query, depth first, at the
\* keys from the root joined with "."
RECURSIVE LeafEntries(_, _)
LeafEntries(pointer, query) ==
  IF query.q = "All" THEN <<Entry(join(pointer, Dot), Bson_I32(1))>>
  ELSE LET RECURSIVE below(_)
           below(i) ==
             IF i > Len(query.keys) THEN <<>>
             ELSE LeafEntries(Append(pointer, query.keys[i].key), query.keys[i].val)
                    \o below(i + 1)
       IN below(1)

\* the entries whose key no later entry has, in order
LastOfEachKey(entries) ==
  LET kept == {i \in 1..Len(entries) :
                 \A j \in (i + 1)..Len(entries) : entries[j].key # entries[i].key}
      RECURSIVE from(_)
      from(i) ==
        IF i > Len(entries) THEN <<>>
        ELSE (IF i \in kept THEN <<entries[i]>> ELSE <<>>) \o from(i + 1)
  IN from(1)

IdExcluded == Entry(StrId, Bson_I32(0))

\* C10, as the specification states it: query_to_projection of Query::Keys
\* gives a flat document that starts with "_id" => 0 and then holds exactly
\* one entry of value 1 for every Query::All leaf, at the keys from the root
\* joined with ".", depth first; a nested Keys has no entry of its own.
C10_ProjectionOfEveryLeaf ==
  (Projected /\ call.query.q = "Keys") =>
    call.out = Bson_Document(<<IdExcluded>> \o LeafEntries(<<>>, call.query))

\* C10, amended: query_to_projection of Query::Keys gives the flat document
\* of "_id" => 0 followed by one entry of value 1 for every Query::All leaf,
\* depth first, in which only the last entry of each path is kept: two leaves
\* of the same joined path have one entry, where the later leaf is, and a leaf
\* at "_id" replaces "_id" => 0 by "_id" => 1 there. When the paths of the
\* leaves differ from each other and from "_id", it is the document of the
\* statement above.
C10_ProjectionLastOfEachPath ==
  (Projected /\ call.query.q = "Keys") =>
    LET leaves == LeafEntries(<<>>, call.query)
        paths == {leaves[i].key : i \in 1..Len(leaves)}
    IN /\ call.out = Bson_Document(LastOfEachKey(<<IdExcluded>> \o leaves))
       /\ (Cardinality(paths) = Len(leaves) /\ StrId \notin paths) =>
            call.out = Bson_Document(<<IdExcluded>> \o leaves)

\* a nested Keys, a leaf at "_id" and the exclusion of "_id" replaced
C10_Witness ==
  /\ Projected /\ call.query.q = "Keys"
  /\ \E i \in 1..Len(call.query.keys) :
       /\ call.query.keys[i].val.q = "Keys"
       /\ call.query.keys[i].val.keys # <<>>
  /\ \E i \in 1..Len(call.query.keys) :
       call.query.keys[i].key = StrId /\ call.query.keys[i].val = Query_All
  /\ Len(call.out.doc) = 2
  /\ \A i \in 1..Len(call.out.doc) : call.out.doc[i].val = Bson_I32(1)

----------------------------------------------------------------------------
(* What the claim about flattening without loss says.                      *)

\* the conditions a translated condition is compared with
OtherConditions == UNION {ConditionsOfSize(n) : n \in 1..(MaxConditionSize - 1)}

\* C12: flattening is lossless: condition_to_filter gives different filters
\* for different conditions, and query_to_projection gives different
\* projections for different queries, so no two different inputs give the same
\* document for the backend.
C12_FlatteningLossless ==
  /\ (Filtered /\ call.out # Diverges) =>
       \A other \in OtherConditions :
         other # call.condition => condition_to_filter(other) # call.out
  /\ Projected =>
       \A other \in ProjectionQueries :
         other # call.query => query_to_projection(other) # call.out

----------------------------------------------------------------------------
(* What the claim about sort_rules_to_sort says.                           *)

Sorted == call.op = "sort_rules_to_sort"

\* the marker of a direction: -1 sorts descending, 1 ascending
Descending == Bson_I32(-1)

Ascending == Bson_I32(1)

\* one entry for every rule, in list order
SortEntries(sort_rules) ==
  [i \in 1..Len(sort_rules) |->
     Entry(join(sort_rules[i].property, Dot),
           IF sort_rules[i].descending THEN Descending ELSE Ascending)]

----------------------------------------------------------------------------
(* What the claim about read says.                                         *)

\* C1: in every read of the driver the query is validated against the schema
\* of the type before any command goes to the backend: when the query does
\* not validate, read returns the validation error and the backend receives
\* no command.
C1_ValidatedBeforeBackend ==
  (call.op = "read" /\ is_err(validate_query(schema, call.query))) =>
    /\ call.out = validate_query(schema, call.query)
    /\ backend = <<>>

----------------------------------------------------------------------------
(* What the claims about the range and the results of a read say.          *)

\* a read that returned, over a backend that answered the command with
\* records it could all deliver
ReadOfRecords ==
  /\ call.op = "read" /\ call.out # Diverges
  /\ is_ok(call.answer)
  /\ \A i \in 1..Len(call.answer.val) : is_ok(call.answer.val[i])

\* the values of the records, in order
RecordValues(records) ==
  [i \in 1..Len(records) |-> value_from_bson(Bson_Document(records[i].val))]

\* the first offset values dropped, then limit values kept at most
SkipThenTake(values, range) ==
  LET offset == IF range.offset = None THEN 0 ELSE range.offset.val
      rest == SubSeq(values, offset + 1, Len(values))
  IN IF range.limit = None \/ range.limit.val >= Len(rest)
     THEN rest
     ELSE SubSeq(rest, 1, range.limit.val)

\* C13: read applies the range as skip-then-take: over a backend that honours
\* the command, the values produced are the matching records in order with
\* the first offset records dropped and then limit records kept at most; no
\* offset adds no skip and no limit adds no limit to the command.
C13_RangeSkipThenTake ==
  (call.op = "read" /\ call.out # Diverges) =>
    LET command == backend[Len(backend)]
    IN /\ Document_get(command, StrSkip) =
            (IF call.range.offset = None THEN None
             ELSE Some(Bson_I64(call.range.offset.val)))
       /\ Document_get(command, StrLimit) =
            (IF call.range.limit = None THEN None
             ELSE Some(Bson_I64(call.range.limit.val)))
       /\ (ReadOfRecords /\ call.honours) =>
            call.out = Ok(SkipThenTake(RecordValues(call.answer.val), call.range))

\* what the read under a read_one returned
UnderlyingRead ==
  LET type_ == Type(StrPeople, schema)
  IN MongoDriver_read(
       type_, call.condition, <<>>, Range(None, Some(1)), call.query,
       command_cursor(
         find_command(type_, call.condition, <<>>, Range(None, Some(1)), call.query),
         call.answer, call.honours)).out

ReadOneOfValues ==
  /\ call.op = "read_one"
  /\ UnderlyingRead # Diverges
  /\ is_ok(UnderlyingRead)

\* C14: read_one returns by the number of values its read yields: no value
\* gives an error of code NotFound, two values or more give an error of code
\* Internal, and one value gives Ok of that value.
C14_ReadOneByCount ==
  ReadOneOfValues =>
    LET values == UnderlyingRead.val
    IN /\ Len(values) = 0 => (is_err(call.out) /\ call.out.error.code = NotFound)
       /\ Len(values) >= 2 => (is_err(call.out) /\ call.out.error.code = Internal)
       /\ Len(values) = 1 => call.out = Ok(values[1])

\* the backend yields two values although one was the limit
C14_Witness ==
  /\ ReadOneOfValues
  /\ Len(UnderlyingRead.val) = 2
  /\ is_err(call.out) /\ call.out.error.code = Internal
  /\ Len(backend) = 1

\* what command_cursor returned to the read
ReadResponse ==
  command_cursor(
    find_command(Type(StrPeople, schema), call.condition, call.sort, call.range,
                 call.query),
    call.answer, call.honours)

\* the backend failed on the command, or on delivering a record
BackendFailed ==
  \/ is_err(ReadResponse)
  \/ \E i \in 1..Len(ReadResponse.val) : is_err(ReadResponse.val[i])

\* C15: every failure the backend reports during a read, on the find command
\* or while the sequence returned produces its elements, reaches the caller
\* as an error of code Internal; no failure is dropped or turned into a
\* shorter result that succeeds.
C15_BackendFailureIsInternal ==
  (call.op = "read" /\ call.out # Diverges /\ BackendFailed) =>
    /\ is_err(call.out)
    /\ call.out.error.code = Internal

----------------------------------------------------------------------------
(* What the claim about connect says.                                      *)

\* connect was called with a URI that parses
ConnectedParsed == call.op = "connect" /\ is_ok(connstring_parse(call.uri))

UriDatabase == connstring_parse(call.uri).val.database

\* connect failed with BadRequest and a hint, and made no client
NoDatabaseRefused ==
  /\ is_err(call.out)
  /\ call.out.error.code = BadRequest
  /\ call.out.error.hint # None
  /\ call.clients = <<>>

\* C16, as the specification states it: connect on a URI that parses but has
\* no database name fails with a BadRequest error that carries a hint, and
\* makes no driver or client; with a database name it returns a driver bound
\* to that database.
C16_ConnectByDatabaseName ==
  ConnectedParsed =>
    /\ UriDatabase = None => NoDatabaseRefused
    /\ UriDatabase # None => call.out = Ok(MongoDriver(UriDatabase.val))

\* C16, amended: connect on a URI that parses but has no database name fails
\* with a BadRequest error that carries a hint, and makes no driver or
\* client; with a database name it makes one client and, when the client is
\* made, returns a driver bound to that database; when the client cannot be
\* made it fails with an Internal error of the description of that failure.
C16_ConnectByDatabaseNameAndClient ==
  ConnectedParsed =>
    /\ UriDatabase = None => NoDatabaseRefused
    /\ UriDatabase # None =>
         /\ Len(call.clients) = 1
         /\ is_ok(call.client) => call.out = Ok(MongoDriver(UriDatabase.val))
         /\ is_err(call.client) => call.out = Err(Error_internal(call.client.error))

\* no database name in the URI: BadRequest, the URI in the message
C16_Witness ==
  /\ ConnectedParsed /\ UriDatabase = None
  /\ NoDatabaseRefused
  /\ Contains(call.out.error.message, call.uri)

----------------------------------------------------------------------------
(* What the claims about get say.                                          *)

Got == call.op = "get"

\* C17: get of an Object schema with a non-empty pointer resolves only
\* declared properties: when the first key is in properties it returns the
\* result of get on that child with the remaining pointer, otherwise it
\* returns nothing, also when additional properties are enabled; with the
\* empty pointer it returns the object schema itself.
C17_ObjectGet ==
  (Got /\ schema.kind = "Object") =>
    IF call.pointer = <<>> THEN call.out = Some(schema)
    ELSE IF Declared(schema, Head(call.pointer))
    THEN call.out = schema_get(PropertySchema(schema, Head(call.pointer)),
                               Tail(call.pointer))
    ELSE call.out = None

\* an undeclared key under an object with additional properties: nothing
C17_Witness ==
  /\ Got /\ schema.kind = "Object"
  /\ schema.additional_properties
  /\ schema.properties # <<>>
  /\ call.pointer # <<>>
  /\ ~Declared(schema, Head(call.pointer))
  /\ call.out = None

\* the keys that are well formed indices
IndexKeys == {k \in PointerKeys : IsNonNegativeIntegerString(k)}

\* C18: get of an Array schema with a non-empty pointer depends only on
\* whether the first key is a non-negative integer string, not on its value:
\* for every such index and every remaining pointer the result is get of the
\* items with the remaining pointer when there are items and nothing when
\* there are none, the same for any two indices; a first key that is no
\* integer gives nothing.
C18_ArrayGet ==
  (Got /\ schema.kind = "Array" /\ call.pointer # <<>>) =>
    IF IsNonNegativeIntegerString(Head(call.pointer))
    THEN /\ call.out = (IF schema.items = None THEN None
                        ELSE schema_get(schema.items.val, Tail(call.pointer)))
         /\ \A j \in IndexKeys :
              schema_get(schema, <<j>> \o Tail(call.pointer)) = call.out
    ELSE call.out = None

\* the index 2^64 under an array of items: the items
C18_Witness ==
  /\ Got /\ schema.kind = "Array"
  /\ schema.items # None
  /\ call.pointer = <<KeyBig>>
  /\ call.out = schema.items
  /\ Cardinality(IndexKeys) >= 2

\* C19: get of the None schema and of every primitive schema (Null, Boolean,
\* Number, String, Enum) returns the schema itself for the empty pointer and
\* nothing for every other pointer.
C19_PrimitiveGet ==
  (Got /\ schema.kind \in PrimitiveKinds \cup {"None"}) =>
    call.out = (IF call.pointer = <<>> THEN Some(schema) ELSE None)

\* a pointer of one key under a primitive: nothing
C19_Witness ==
  /\ Got /\ schema.kind \in PrimitiveKinds
  /\ Len(call.pointer) = 1
  /\ call.out = None

\* the schema the last call of the log placed under the key k (under any
\* index, for an array), if a call placed one
RECURSIVE LastPlaced(_, _)
LastPlaced(log, k) ==
  IF log = <<>> THEN None
  ELSE LET last == log[Len(log)]
       IN IF last.fn \in {"set_items", "set_boxed_items"} \/ last.key = k
          THEN Some(last.schema)
          ELSE LastPlaced(SubSeq(log, 1, Len(log) - 1), k)

GotAfterBuild == Got /\ call.after.op = "build"

\* C20: get round-trips with construction: after any sequence of
\* add_property / add_boxed_property calls on an Object schema, get([k])
\* returns exactly the schema most recently placed under k, and nothing for a
\* key never added; after any sequence of set_items / set_boxed_items calls
\* on an Array schema, get([i]) returns exactly the schema most recently set
\* as items, for every integer string i.
C20_GetRoundTrip ==
  (GotAfterBuild /\ Len(call.pointer) = 1) =>
    LET k == call.pointer[1]
    IN /\ schema.kind = "Object" => call.out = LastPlaced(call.after.log, k)
       /\ (schema.kind = "Array" /\ IsNonNegativeIntegerString(k)) =>
            call.out = LastPlaced(call.after.log, k)

\* a key given two schemas in turn: get returns the second
C20_Witness ==
  /\ GotAfterBuild /\ schema.kind = "Object"
  /\ Len(call.after.log) = 2
  /\ call.after.log[1].key = call.after.log[2].key
  /\ call.after.log[1].schema # call.after.log[2].schema
  /\ call.pointer = <<call.after.log[2].key>>
  /\ call.out = Some(call.after.log[2].schema)

----------------------------------------------------------------------------
(* What the claims about errors and their codes say.                        *)

Converted == call.op = "to_value"

HintEntries(hint) ==
  IF hint = None THEN <<>> ELSE <<Entry(StrHint, Value_String(hint.val))>>

\* C21: the value of an error is an object whose entries are, in this order,
\* "error" = true, "code" = the integer of the error's code, "message" = the
\* error's message, and then a "hint" entry exactly when the error has a hint,
\* equal to it; there is no other entry and the error is as it was before.
C21_ToValueEntries ==
  Converted =>
    /\ call.out = Value_Object(
         << Entry(StrError, Value_Boolean(TRUE)),
            Entry(StrCode, Value_I64(Code_to_u16(call.before.code))),
            Entry(StrMessage, Value_String(call.before.message)) >>
         \o HintEntries(call.before.hint))
    /\ call.self = call.before

\* an error with a message and a hint was converted, and its value has the
\* four entries
C21_Witness ==
  /\ Converted
  /\ call.before.hint # None
  /\ Len(call.out.object) = 4
  /\ Len(call.before.message) > 0

Displayed == call.op = "code_fmt"

CodeIntegers ==
  [BadRequest |-> 400, Forbidden |-> 403, NotFound |-> 404,
   MethodNotAllowed |-> 405, NotAcceptable |-> 406, Conflict |-> 409,
   BadRange |-> 416, Internal |-> 500, NotImplemented |-> 501]

\* the three decimal digits of an integer between 100 and 999
ThreeDigits(n) ==
  << Digits_in_order[(n \div 100) + 1], Digits_in_order[((n \div 10) % 10) + 1],
     Digits_in_order[(n % 10) + 1] >>

\* C22: each of the nine codes has the integer the table gives, no two codes
\* have the same integer, each code has one reason string, and a displayed
\* code reads "<integer> <reason>"; NotFound reads "404 Not Found".
C22_CodeIntegersAndDisplay ==
  /\ \A code \in Codes : Code_to_u16(code) = CodeIntegers[code]
  /\ \A c1, c2 \in Codes : Code_to_u16(c1) = Code_to_u16(c2) => c1 = c2
  /\ Displayed =>
       /\ call.integer = CodeIntegers[call.code]
       /\ call.reason = Code_reason(call.code)
       /\ call.out = ThreeDigits(call.integer) \o <<" ">> \o call.reason
       /\ call.code = NotFound =>
            call.out = <<"4","0","4"," ","N","o","t"," ","F","o","u","n","d">>

C22_Witness == Displayed /\ call.code = NotFound /\ Len(call.out) = 13

----------------------------------------------------------------------------
(* What the claims about the recursion of condition_to_filter and of the    *)
(* conversion of values say.                                                *)

RECURSIVE Emitted(_)
RECURSIVE PathEntries(_, _)

\* the entries emitted for keys below pointer: a Keys directly under a key
\* goes on with the longer path, every other sub-condition is one entry at
\* the joined path, holding its own translation
PathEntries(pointer, keys) ==
  IF keys = <<>> THEN <<>>
  ELSE LET path == Append(pointer, Head(keys).key)
           condition == Head(keys).val
       IN (IF condition.c = "Keys"
           THEN PathEntries(path, condition.keys)
           ELSE <<Entry(join(path, Dot), Emitted(condition))>>)
          \o PathEntries(pointer, Tail(keys))

\* the filter of a condition: a Keys, wherever it stands, starts from the
\* empty path; an entry emitted at a path replaces an earlier one at it
Emitted(condition) ==
  CASE condition.c = "Keys" ->
         Bson_Document(LastOfEachKey(PathEntries(<<>>, condition.keys)))
    [] condition.c = "Not" -> Bson_Document(<<Entry(StrNot, Emitted(condition.cond))>>)
    [] condition.c = "And" ->
         Bson_Document(<<Entry(StrAnd,
           Bson_Array([i \in 1..Len(condition.conds) |-> Emitted(condition.conds[i])]))>>)
    [] condition.c = "Or" ->
         Bson_Document(<<Entry(StrOr,
           Bson_Array([i \in 1..Len(condition.conds) |-> Emitted(condition.conds[i])]))>>)
    [] OTHER -> Translation(condition)

\* C23: in the filter of a Keys condition, only a Keys directly under a key
\* continues the flattening with the extended path; every other sub-condition
\* under a key (True, False, Equal, Not, And, Or) is emitted as one entry at
\* the joined path, and a Keys inside such a connective is translated on its
\* own from the empty path, so that its entries do not carry the outer path.
C23_OnlyDirectKeysExtendPath ==
  (Filtered /\ call.condition.c = "Keys") => call.out = Emitted(call.condition)

----------------------------------------------------------------------------
(* What the claim about the read under read_one says.                       *)

\* the read of the type, condition and query of the read_one, with no sort
\* rule, no offset and the limit 1: its result and the commands it issued
ReadWithLimitOne ==
  LET type_ == Type(StrPeople, schema)
  IN MongoDriver_read(
       type_, call.condition, <<>>, Range(None, Some(1)), call.query,
       command_cursor(
         find_command(type_, call.condition, <<>>, Range(None, Some(1)), call.query),
         call.answer, call.honours))

\* C24: read_one makes one read and no other: the commands the backend has
\* received are those of one read of the same type, condition and query with
\* an empty sort list, no offset and limit 1 (one find command of that type,
\* with the filter of the condition, the projection of the query, an empty
\* sort, limit 1 and no skip); when that read fails, read_one returns the
\* error of the read.
C24_ReadOneReadsOnce ==
  call.op = "read_one" =>
    /\ backend = ReadWithLimitOne.commands
    /\ Len(backend) <= 1
    /\ \A i \in 1..Len(backend) :
         /\ Document_get(backend[i], StrFind) = Some(Bson_String(StrPeople))
         /\ Document_get(backend[i], StrFilter) = Some(condition_to_filter(call.condition))
         /\ Document_get(backend[i], StrProjection) = Some(query_to_projection(call.query))
         /\ Document_get(backend[i], StrSort) = Some(Bson_Document(<<>>))
         /\ Document_get(backend[i], StrLimit) = Some(Bson_I64(1))
         /\ Document_get(backend[i], StrSkip) = None
    /\ (ReadWithLimitOne.out # Diverges /\ is_err(ReadWithLimitOne.out)) =>
         call.out = ReadWithLimitOne.out

\* the one read of a read_one failed on the backend, and read_one returned
\* the Internal error of the read
C24_Witness ==
  /\ call.op = "read_one"
  /\ Len(backend) = 1
  /\ is_err(call.answer)
  /\ is_err(call.out)
  /\ call.out.error.code = Internal
  /\ call.out.error.message = call.answer.error

----------------------------------------------------------------------------
(* What the claim about the termination of the conversions says.            *)

\* C25: the conversion of every value to Bson returns, and so does
\* condition_to_filter of every condition, Equal(v) with v an Object or with
\* an Object inside an Array included.
C25_ConversionsReturn ==
  call.op \in {"value_into_bson", "condition_to_filter"} => call.out # Diverges

----------------------------------------------------------------------------
(* What the claims that relate validate_query and get say.                  *)

\* s is built only from objects without additional properties, arrays that
\* have an items schema, and primitives
RECURSIVE Closed(_)
Closed(s) ==
  CASE s.kind = "Object" ->
         /\ ~s.additional_properties
         /\ \A i \in 1..Len(s.properties) : Closed(s.properties[i].val)
    [] s.kind = "Array" -> s.items # None /\ Closed(s.items.val)
    [] s.kind \in PrimitiveKinds -> TRUE
    [] OTHER -> FALSE

\* the paths, from pointer on, of the keys of query at every depth
RECURSIVE KeyPaths(_, _)
KeyPaths(pointer, query) ==
  IF query.q = "All" THEN {}
  ELSE UNION { {Append(pointer, query.keys[i].key)}
                 \cup KeyPaths(Append(pointer, query.keys[i].key), query.keys[i].val) :
               i \in 1..Len(query.keys) }

\* C26: for a schema built only from objects without additional properties,
\* arrays with an items schema, and primitives: when validate_query of a
\* query succeeds, get of the schema has a schema at the path of every key of
\* the query, at every depth.
C26_ValidatedPathsResolve ==
  (Validated /\ Closed(schema) /\ is_ok(call.out)) =>
    \A path \in KeyPaths(<<>>, call.query) : schema_get(schema, path) # None

\* a query with a key under a key is validated against such a schema, and
\* the longer path leads to a schema
C26_Witness ==
  /\ Validated /\ Closed(schema) /\ is_ok(call.out)
  /\ \E path \in KeyPaths(<<>>, call.query) :
       Len(path) = 2 /\ schema_get(schema, path) # None

\* get of pointer composed of two steps: get of the first i keys, then get of
\* the rest on the schema found, nothing when the first step finds nothing
TwoStepGet(self, pointer, i) ==
  LET first == schema_get(self, SubSeq(pointer, 1, i))
  IN IF first = None THEN None
     ELSE schema_get(first.val, SubSeq(pointer, i + 1, Len(pointer)))

\* C27: get composes over the concatenation of pointers: for every schema
\* and every way of writing the pointer as p followed by q, get of the
\* pointer is get of q on the schema that get of p finds, and is nothing when
\* get of p finds nothing.
C27_GetComposes ==
  Got => \A i \in 0..Len(call.pointer) :
           call.out = TwoStepGet(schema, call.pointer, i)

\* a pointer of two keys is resolved, through a first key that leads to a
\* schema other than the root
C27_Witness ==
  /\ Got
  /\ Len(call.pointer) = 2
  /\ call.out # None
  /\ schema_get(schema, SubSeq(call.pointer, 1, 1)) \notin {None, Some(schema)}
  /\ call.out = TwoStepGet(schema, call.pointer, 1)

====
